---- MODULE Spec2Model ----
(***************************************************************************)
(* Infinite-horizon hypertension MDP: transition model (TP_infinite), the  *)
(* policy solver, the two titration engines and the per-patient            *)
(* orchestration, as state machines.                                       *)
(*                                                                         *)
(* Numbers.  Blood pressures are exact fixed-point numbers in units of     *)
(* 1/BPScale mm Hg.  Risks, death rates and relative-risk factors are      *)
(* numerators over RD; post-treatment risks are numerators over RD*RD and  *)
(* probabilities numerators over PScale = RD*RD*RD, so every product the   *)
(* code forms is exact.                                                    *)
(***************************************************************************)
EXTENDS Integers, Sequences, FiniteSets, TLC

\* ------------------------------------------------------------------ bounds
\* resolution of risks and rates: the values 0, 1/RD, ..., 1 are numerators 0..RD
RD == 2
\* largest number of treatment choices (len(alldrugs)) explored
MaxTrt == 2

\* ------------------------------------------------------------ fixed values
numhealth == 10
events == 2
BPScale == 10 * 10000
PScale == RD * RD * RD
\* the floating-point NaN: a value no number of the model equals
NaN == 0 - 1000000000

States == 0 .. (numhealth - 1)
Dead == {6, 7, 8, 9}
Live == States \ Dead
Events == 0 .. (events - 1)

Min(a, b) == IF a <= b THEN a ELSE b
Max(a, b) == IF a >= b THEN a ELSE b

\* treatment menu of the data test: no treatment, then the five single drugs
DrugMenu == << <<"NT">>, <<"ACE">>, <<"ARB">>, <<"BB">>, <<"CCB">>, <<"TH">> >>

VARIABLES
    \* ---- inputs of TP_infinite
    periodrisk,   \* [States -> [Events -> 0..RD]]   1-year CHD / stroke risk
    chddeath,     \* numerator over RD
    strokedeath,  \* numerator over RD
    alldeath,     \* numerator over RD
    rrfactor,     \* [Events -> numerator over RD]: riskslope[k]^(sbpreduc/20) for sbpreduc # 0
    pretrtsbp,    \* [States -> mm Hg * BPScale]
    pretrtdbp,    \* [States -> mm Hg * BPScale]
    sbpmin, dbpmin, sbpmax, dbpmax,   \* mm Hg * BPScale
    alldrugs,     \* sequence of drug combinations; action j is alldrugs[j+1]
    \* ---- locals and results of TP_infinite
    feasible,     \* [States -> [actions -> {0, 1, NaN}]]
    ptrans,       \* ptrans[h][j][s2] is the code's ptrans[h, s2, j], over PScale
    j, h,         \* loop indices
    pc,           \* position in the program
    cur,          \* state of a trajectory of the chain defined by ptrans
    \* ---- inputs of the titration engines
    periodrisk10, \* [States -> [Events -> risk in 1/1000]]: the engines' pretrtrisk (10-year risk)
    targetrisk, targetdiff,   \* in 1/1000
    targetsbp, targetdbp,     \* mm Hg * BPScale
    numeds,       \* the engines' parameter numtrt: largest number of medications
    \* ---- locals and result of the titration engines
    policy,       \* [States -> level or NaN]
    past_trt, month, post_trt_sbp, post_trt_dbp, post_trt_risk,
    \* policy_improvement_infinite
    P, r, gamma, max_iterations, pi_opt, pi_old, V_opt, iteration,
    \* patient_sim_infinite_no_gurobi: the reconciled levels of the two engines
    pi_aha, pi_risk,
    age,          \* the patient's age in years
    exc,          \* the exception raised in the try block of the orchestrator, or "none"
    result,       \* what the orchestrator returned, once it has returned
    \* ---- evaluate_pi_infinite and evaluate_events_infinite
    event_states, \* [states -> {0, 1}]: the event indicators
    V_pi, V_pi_old, E_pi, E_pi_old,   \* sequences: the value of state t is V_pi[t + 1]
    V_iteration, E_iteration,         \* sweeps made by either function
    V_returned, E_returned            \* whether either function has returned

tpInputs == << periodrisk, chddeath, strokedeath, alldeath, rrfactor, pretrtsbp,
               pretrtdbp, sbpmin, dbpmin, sbpmax, dbpmax, alldrugs >>
tpVars == << feasible, ptrans, j, h >>
engInputs == << periodrisk10, targetrisk, targetdiff, targetsbp, targetdbp, numeds >>
engVars == << policy, past_trt, month, post_trt_sbp, post_trt_dbp, post_trt_risk >>
piInputs == << P, r, gamma, max_iterations >>
piVars == << pi_opt, pi_old, V_opt, iteration >>
simVars == << pi_aha, pi_risk >>
evVars == << event_states, V_pi, V_pi_old, V_iteration, V_returned,
             E_pi, E_pi_old, E_iteration, E_returned >>
excVars == << age, exc, result >>
vars == << tpInputs, tpVars, pc, cur, engInputs, engVars, piInputs, piVars, simVars,
           evVars, excVars >>

numtrt == Len(alldrugs)
Actions == 0 .. (numtrt - 1)

\* ------------------------------------------------- sbp_reductions_drugtype
\* coef is the drug's intercept in tenths of mm Hg: BPdrop = coef/10 + 0.1*(pre - 154)
SBPdrop(coef, pretreatment) == coef * (BPScale \div 10) + (pretreatment - 154 * BPScale) \div 10

aceinhibitors(pretreatment) == SBPdrop(85, pretreatment)
calciumcb(pretreatment) == SBPdrop(88, pretreatment)
thiazides(pretreatment) == SBPdrop(88, pretreatment)
betablock(pretreatment) == SBPdrop(92, pretreatment)
arb(pretreatment) == SBPdrop(103, pretreatment)

CountDrug(drugcomb, d) == Cardinality({i \in 1 .. Len(drugcomb) : drugcomb[i] = d})

\* the five "for r in range(n)" loops: n doses of one drug, each on the reduced pressure
RECURSIVE SbpDoses(_, _, _, _)
SbpDoses(n, d, pretreatment, sbp_reduc) ==
    IF n = 0 THEN sbp_reduc
    ELSE LET cur_bp == pretreatment - sbp_reduc
             drop == CASE d = "TH" -> thiazides(cur_bp)
                       [] d = "BB" -> betablock(cur_bp)
                       [] d = "ACE" -> aceinhibitors(cur_bp)
                       [] d = "ARB" -> arb(cur_bp)
                       [] OTHER -> calciumcb(cur_bp)
         IN SbpDoses(n - 1, d, pretreatment, sbp_reduc + drop)

sbp_reductions(trt, pretreatment, drugs) ==
    LET drugcomb == drugs[trt + 1]
        r1 == SbpDoses(CountDrug(drugcomb, "TH"), "TH", pretreatment, 0)
        r2 == SbpDoses(CountDrug(drugcomb, "BB"), "BB", pretreatment, r1)
        r3 == SbpDoses(CountDrug(drugcomb, "ACE"), "ACE", pretreatment, r2)
        r4 == SbpDoses(CountDrug(drugcomb, "ARB"), "ARB", pretreatment, r3)
    IN SbpDoses(CountDrug(drugcomb, "CCB"), "CCB", pretreatment, r4)

\* ------------------------------------------------- dbp_reductions_drugtype
\* The module is imported by the transition model but is not among the sources;
\* it is modelled as the diastolic twin of sbp_reductions (section 4.1 of the
\* design): intercept coef/10 and slope 0.1 around 97 mm Hg, doses applied on
\* the already reduced pressure in the same drug order.
DBPdrop(coef, pretreatment) == coef * (BPScale \div 10) + (pretreatment - 97 * BPScale) \div 10

RECURSIVE DbpDoses(_, _, _, _)
DbpDoses(n, d, pretreatment, dbp_reduc) ==
    IF n = 0 THEN dbp_reduc
    ELSE LET cur_bp == pretreatment - dbp_reduc
             drop == CASE d = "TH" -> DBPdrop(44, cur_bp)
                       [] d = "BB" -> DBPdrop(67, cur_bp)
                       [] d = "ACE" -> DBPdrop(47, cur_bp)
                       [] d = "ARB" -> DBPdrop(57, cur_bp)
                       [] OTHER -> DBPdrop(59, cur_bp)
         IN DbpDoses(n - 1, d, pretreatment, dbp_reduc + drop)

dbp_reductions(trt, pretreatment, drugs) ==
    LET drugcomb == drugs[trt + 1]
        r1 == DbpDoses(CountDrug(drugcomb, "TH"), "TH", pretreatment, 0)
        r2 == DbpDoses(CountDrug(drugcomb, "BB"), "BB", pretreatment, r1)
        r3 == DbpDoses(CountDrug(drugcomb, "ACE"), "ACE", pretreatment, r2)
        r4 == DbpDoses(CountDrug(drugcomb, "ARB"), "ARB", pretreatment, r3)
    IN DbpDoses(CountDrug(drugcomb, "CCB"), "CCB", pretreatment, r4)

\* ------------------------------------------------------ post_treatment_risk
\* RR = riskslope[event] ** (sbpreduc/20) is a real power: it is 1 for a zero
\* reduction, and for a nonzero reduction its value is the input rrfactor[event]
\* (any positive value is that power for some slope).  The result is over RD*RD.
new_riskNoBaseline(sbpreduc, pretrtrisk, event) ==
    LET RR == IF sbpreduc = 0 THEN RD ELSE rrfactor[event]
    IN RR * RD

new_risk(sbpreduc, pretrtrisk, event) ==
    LET RR == IF sbpreduc = 0 THEN RD ELSE rrfactor[event]
    IN RR * pretrtrisk

\* ------------------------------------------------------------- TP_infinite
\* lines 50-64: reductions and feasibility of action jj in state hh
SbpReduc(hh, jj) == IF jj = 0 THEN 0 ELSE sbp_reductions(jj, pretrtsbp[hh], alldrugs)
DbpReduc(hh, jj) == IF jj = 0 THEN 0 ELSE dbp_reductions(jj, pretrtdbp[hh], alldrugs)

FeasNoTrtWrong(hh) ==
    IF pretrtsbp[hh] > sbpmax /\ pretrtdbp[hh] > dbpmax THEN 0 ELSE 1

FeasNoTrt(hh) ==
    IF pretrtsbp[hh] > sbpmax \/ pretrtdbp[hh] > dbpmax THEN 0 ELSE 1

FeasTrt(hh, jj) ==
    LET newsbp == pretrtsbp[hh] - SbpReduc(hh, jj)
        newdbp == pretrtdbp[hh] - DbpReduc(hh, jj)
    IN IF (newsbp < sbpmin \/ pretrtsbp[hh] < 0) \/ (newdbp < dbpmin \/ DbpReduc(hh, jj) < 0)
       THEN 0 ELSE 1

Feas(hh, jj) == IF jj = 0 THEN FeasNoTrt(hh) ELSE FeasTrt(hh, jj)

\* lines 66-68: post-treatment risk of event k, over RD*RD
Risk(hh, k, jj) == new_risk(SbpReduc(hh, jj), periodrisk[hh][k], k)

\* an alternate that sends the survivor of an event to History-of-Both
AlternateBoth(hh) ==
    IF hh \in {3, 4, 5} THEN 3
    ELSE IF hh = 1 THEN 1
    ELSE IF hh = 2 THEN 2
    ELSE 0

\* an event state that is its own default state
AlternateSelf(hh) == IF hh \in {1, 2, 3, 4, 5} THEN hh ELSE 0

\* lines 75-82
Alternate(hh) ==
    IF hh = 3 THEN 3
    ELSE IF hh = 4 \/ hh = 1 THEN 1
    ELSE IF hh = 5 \/ hh = 2 THEN 2
    ELSE 0

ZeroRow == [s \in States |-> 0]

\* the five formulas of lines 86-107 before any clipping, over PScale
StrokeDeathP(hh, jj) == Min(PScale, strokedeath * Risk(hh, 1, jj))
ChdDeathP(hh, jj) == Min(PScale, chddeath * Risk(hh, 0, jj))
OtherDeathP == Min(PScale, alldeath * RD * RD)
StrokeSurvP(hh, jj) == Min(PScale, (RD - strokedeath) * Risk(hh, 1, jj))
ChdSurvP(hh, jj) == Min(PScale, (RD - chddeath) * Risk(hh, 0, jj))

\* a clipped step that keeps its formula value instead of the remainder
LiveRowNoClip(hh, jj) ==
    LET p8 == StrokeDeathP(hh, jj)
        p7 == ChdDeathP(hh, jj)
        p6 == OtherDeathP
        p5 == StrokeSurvP(hh, jj)
        p4 == ChdSurvP(hh, jj)
    IN IF p8 + p7 >= PScale
       THEN [ZeroRow EXCEPT ![8] = p8, ![7] = p7]
       ELSE IF p8 + p7 + p6 >= PScale
       THEN [ZeroRow EXCEPT ![8] = p8, ![7] = p7, ![6] = p6]
       ELSE IF p8 + p7 + p6 + p5 >= PScale
       THEN [ZeroRow EXCEPT ![8] = p8, ![7] = p7, ![6] = p6, ![5] = p5]
       ELSE IF p8 + p7 + p6 + p5 + p4 >= PScale
       THEN [ZeroRow EXCEPT ![8] = p8, ![7] = p7, ![6] = p6, ![5] = p5, ![4] = p4]
       ELSE [ZeroRow EXCEPT ![8] = p8, ![7] = p7, ![6] = p6, ![5] = p5, ![4] = p4,
                            ![Alternate(hh)] = PScale - (p8 + p7 + p6 + p5 + p4)]

\* a clipped step that takes the remainder but does not leave the allocation:
\* the later outcomes still get their formula values
LiveRowNoBreak(hh, jj) ==
    LET p8 == StrokeDeathP(hh, jj)
        p7 == Min(ChdDeathP(hh, jj), PScale - p8)
        p6 == Min(OtherDeathP, PScale - (p8 + p7))
        p5 == StrokeSurvP(hh, jj)
        p4 == ChdSurvP(hh, jj)
    IN [ZeroRow EXCEPT ![8] = p8, ![7] = p7, ![6] = p6, ![5] = p5, ![4] = p4,
                       ![Alternate(hh)] = Max(0, PScale - (p8 + p7 + p6 + p5 + p4))]

\* lines 84-114: the row of a live state, allocated in priority order with clipping
LiveRow(hh, jj) ==
    LET p8 == StrokeDeathP(hh, jj)
        p7 == ChdDeathP(hh, jj)
        p6 == OtherDeathP
        p5 == StrokeSurvP(hh, jj)
        p4 == ChdSurvP(hh, jj)
        c8 == p8
        c7 == c8 + p7
        c6 == c7 + p6
        c5 == c6 + p5
        c4 == c5 + p4
    IN IF c8 + p7 >= PScale
       THEN [ZeroRow EXCEPT ![8] = p8, ![7] = PScale - c8]
       ELSE IF c7 + p6 >= PScale
       THEN [ZeroRow EXCEPT ![8] = p8, ![7] = p7, ![6] = PScale - c7]
       ELSE IF c6 + p5 >= PScale
       THEN [ZeroRow EXCEPT ![8] = p8, ![7] = p7, ![6] = p6, ![5] = PScale - c6]
       ELSE IF c5 + p4 >= PScale
       THEN [ZeroRow EXCEPT ![8] = p8, ![7] = p7, ![6] = p6, ![5] = p5, ![4] = PScale - c5]
       ELSE [ZeroRow EXCEPT ![8] = p8, ![7] = p7, ![6] = p6, ![5] = p5, ![4] = p4,
                            ![Alternate(hh)] = PScale - c4]

\* a dead state that stays where it is instead of moving to state 9
DeadRowSelf(hh) == [ZeroRow EXCEPT ![hh] = PScale]

\* lines 72-73
DeadRow(hh) == [ZeroRow EXCEPT ![9] = PScale]

Row(hh, jj) == IF hh \in Dead THEN DeadRow(hh) ELSE LiveRow(hh, jj)

\* feasible[h, :].max(): numpy's max is NaN as soon as one entry is NaN
FeasRowMax(row) ==
    IF \E a \in DOMAIN row : row[a] = NaN THEN NaN
    ELSE IF \E a \in DOMAIN row : row[a] = 1 THEN 1 ELSE 0

\* lines 49-114: the loop over the states for treatment j; it leaves h at the
\* last state
TPStates ==
    /\ pc = "tp_states"
    /\ feasible' = [s \in States |-> [feasible[s] EXCEPT ![j] = Feas(s, j)]]
    /\ ptrans' = [s \in States |-> [ptrans[s] EXCEPT ![j] = Row(s, j)]]
    /\ h' = numhealth - 1
    /\ pc' = "tp_fallback"
    /\ UNCHANGED << evVars, excVars, tpInputs, j, cur, engInputs, engVars, piInputs, piVars, simVars >>

\* lines 116-118, which run once per treatment j, after the loop over the states,
\* with h still the last state of that loop; then the next j, or the return
TPFallback ==
    /\ pc = "tp_fallback"
    /\ feasible' = IF FeasRowMax(feasible[h]) = 0
                   THEN [feasible EXCEPT ![h][0] = 1]
                   ELSE feasible
    /\ IF j + 1 < numtrt
       THEN /\ j' = j + 1
            /\ pc' = "tp_states"
       ELSE /\ j' = j
            /\ pc' = "tp_done"
    /\ UNCHANGED << evVars, excVars, tpInputs, ptrans, h, cur, engInputs, engVars, piInputs, piVars, simVars >>

\* a trajectory of the chain defined by the returned tensor: it starts anywhere
\* and follows any transition of positive probability under any action
WalkStart ==
    /\ pc = "tp_done"
    /\ cur' \in States
    /\ pc' = "walk"
    /\ UNCHANGED << evVars, excVars, tpInputs, tpVars, engInputs, engVars, piInputs, piVars, simVars >>

WalkStep ==
    /\ pc = "walk"
    /\ \E a \in Actions : \E s2 \in States :
          /\ ptrans[cur][a][s2] > 0
          /\ cur' = s2
    /\ UNCHANGED << evVars, excVars, tpInputs, tpVars, pc, engInputs, engVars, piInputs, piVars, simVars >>

\* ---- inputs
RiskVals == {0, RD \div 2, RD}
RateVals == {0, RD \div 2, RD}
RRVals == {RD \div 2, 2 * RD}
\* pre-treatment (SBP, DBP) pairs, in mm Hg
BpVals == { <<125, 70>>, <<140, 70>>, <<154, 70>>, <<125, 95>>, <<170, 70>> }
\* a hypotensive patient, judged against the lower bounds 50/40
LowBpVals == { <<60, 70>> }

TPInputsInit ==
    /\ \E rc \in RiskVals, rs \in RiskVals :
          periodrisk = [s \in States |-> [k \in Events |-> IF k = 0 THEN rc ELSE rs]]
    /\ chddeath \in RateVals
    /\ strokedeath \in RateVals
    /\ alldeath \in RateVals
    /\ \E f \in RRVals : rrfactor = [k \in Events |-> f]
    /\ \E bp \in BpVals \cup LowBpVals :
          /\ pretrtsbp = [s \in States |-> bp[1] * BPScale]
          /\ pretrtdbp = [s \in States |-> bp[2] * BPScale]
          /\ sbpmin = (IF bp \in LowBpVals THEN 50 ELSE 120) * BPScale
          /\ dbpmin = (IF bp \in LowBpVals THEN 40 ELSE 55) * BPScale
    /\ sbpmax = 150 * BPScale
    /\ dbpmax = 90 * BPScale
    /\ \E n \in 1 .. MaxTrt : alldrugs = SubSeq(DrugMenu, 1, n)

TPLocalsInit ==
    /\ feasible = [s \in States |-> [a \in Actions |-> NaN]]
    /\ ptrans = [s \in States |-> [a \in Actions |-> ZeroRow]]
    /\ j = 0
    /\ h = 0

\* the engines' variables while the engines are not running
EngIdle ==
    /\ periodrisk10 = [s \in States |-> [k \in Events |-> 0]]
    /\ targetrisk = 0 /\ targetdiff = 0 /\ targetsbp = 0 /\ targetdbp = 0
    /\ numeds = 0
    /\ policy = [s \in States |-> NaN]
    /\ past_trt = 0 /\ month = 0
    /\ post_trt_sbp = 0 /\ post_trt_dbp = 0 /\ post_trt_risk = 0

\* the policy iteration before it is called
EvalIdle ==
    /\ event_states = << >>
    /\ V_pi = << >> /\ V_pi_old = << >> /\ V_iteration = 0 /\ V_returned = FALSE
    /\ E_pi = << >> /\ E_pi_old = << >> /\ E_iteration = 0 /\ E_returned = FALSE

\* the orchestrator has not returned
Pending == [kind |-> "pending"]

\* no patient: nothing is raised and nothing is returned
ExcIdle == age = 40 /\ exc = "none" /\ result = Pending

PIIdle ==
    /\ P = << >> /\ r = << >> /\ gamma = << 0, 1 >> /\ max_iterations = 0
    /\ pi_opt = << >> /\ pi_old = << >> /\ V_opt = << >>
    /\ iteration = 0
    /\ pi_aha = << >> /\ pi_risk = << >>

InitTP ==
    /\ TPInputsInit
    /\ TPLocalsInit
    /\ pc = "tp_states"
    /\ cur = 0
    /\ EngIdle
    /\ PIIdle
    /\ EvalIdle
    /\ ExcIdle

NextTP == TPStates \/ TPFallback \/ WalkStart \/ WalkStep

SpecTP == InitTP /\ [][NextTP]_vars

\* ------------------------------------------------ properties of TP_infinite
TPReturned == pc \in {"tp_done", "walk"}

RECURSIVE SumUpTo(_, _)
SumUpTo(row, n) == IF n < 0 THEN 0 ELSE row[n] + SumUpTo(row, n - 1)
RowSum(row) == SumUpTo(row, numhealth - 1)

ZeroRisk == \A s \in States : \A k \in Events : periodrisk[s][k] = 0

\* C1: every (state, action) slice of the returned tensor has only non-negative
\* entries and sums to exactly 1, for all ten states and every action, feasible
\* or not, clipped or not (risks non-negative, death rates likelihoods in [0, 1])
C1_RowsAreDistributions ==
    TPReturned =>
        \A s \in States : \A a \in Actions :
            /\ \A s2 \in States : ptrans[s][a][s2] >= 0
            /\ RowSum(ptrans[s][a]) = PScale

\* a returned row of a live state in which a priority step was strictly clipped
C1_Witness ==
    /\ TPReturned
    /\ \E s \in Live : \E a \in Actions :
          /\ ptrans[s][a][7] < ChdDeathP(s, a)
          /\ ptrans[s][a][7] > 0
          /\ ptrans[s][a][Alternate(s)] = 0
          /\ feasible[s][a] = 0

\* C2: every dead state's row puts probability 1 on state 9 and 0 elsewhere, for
\* every action, and a trajectory that is in a dead state is in state 9 after
\* its next step (so it never returns to a live state)
C2_DeadAbsorbing ==
    /\ [](TPReturned =>
            \A s \in Dead : \A a \in Actions : \A s2 \in States :
                ptrans[s][a][s2] = IF s2 = 9 THEN PScale ELSE 0)
    /\ [][(pc = "walk" /\ cur \in Dead) => cur' = 9]_vars

\* a trajectory that has reached a death state other than 9 from a live row
C2_Witness ==
    /\ pc = "walk"
    /\ cur \in {6, 7, 8}
    /\ \E s \in Live : \E a \in Actions : ptrans[s][a][cur] > 0

\* C3: in the returned feasibility matrix every state has at least one action
\* marked feasible
C3_EveryStateHasFeasibleAction ==
    TPReturned => \A s \in States : \E a \in Actions : feasible[s][a] = 1

\* C9 as claimed: with zero period risk every live row is probability 1 on the
\* alternate state, whatever the death rates
C9_ZeroRiskAlternateOnly ==
    (TPReturned /\ ZeroRisk) =>
        \A s \in Live : \A a \in Actions : \A s2 \in States :
            ptrans[s][a][s2] = IF s2 = Alternate(s) THEN PScale ELSE 0

\* C9 amended: with zero period risk every live row puts min(1, alldeath) on the
\* non-CVD death state 6, the rest on the alternate state, and 0 on the event
\* states 4, 5 and the CVD death states 7, 8; it is probability 1 on the
\* alternate state when alldeath is 0
C9_ZeroRiskOtherDeathAndAlternate ==
    (TPReturned /\ ZeroRisk) =>
        \A s \in Live : \A a \in Actions : \A s2 \in States :
            ptrans[s][a][s2] =
                IF s2 = 6 THEN Min(RD, alldeath) * RD * RD
                ELSE IF s2 = Alternate(s) THEN (RD - Min(RD, alldeath)) * RD * RD
                ELSE 0

\* zero risk with all three death rates positive, treated actions included
C9_Witness ==
    /\ TPReturned
    /\ ZeroRisk
    /\ alldeath > 0 /\ alldeath < RD /\ chddeath > 0 /\ strokedeath > 0
    /\ numtrt > 1
    /\ ptrans[0][1][6] > 0
    /\ ptrans[0][1][0] > 0

\* C10: for a state with a feasible positive action, action 0 is infeasible
\* exactly when the pre-treatment SBP exceeds sbpmax or the pre-treatment DBP
\* exceeds dbpmax, and feasible otherwise
C10_NoTreatmentFeasibility ==
    TPReturned =>
        \A s \in States :
            (\E a \in Actions \ {0} : feasible[s][a] = 1) =>
                /\ feasible[s][0] \in {0, 1}
                /\ feasible[s][0] = 0 <=> (pretrtsbp[s] > sbpmax \/ pretrtdbp[s] > dbpmax)

\* SBP 154 against the bounds [120, 150], DBP within its bounds
C10_Witness ==
    /\ TPReturned
    /\ \E s \in Live :
          /\ pretrtsbp[s] = 154 * BPScale
          /\ pretrtdbp[s] <= dbpmax
          /\ sbpmin = 120 * BPScale /\ sbpmax = 150 * BPScale
          /\ feasible[s][0] = 0
          /\ \E a \in Actions \ {0} : feasible[s][a] = 1

\* C28: in the returned tensor no state other than 3 has a transition into
\* state 3 (History-of-Both) and no state other than 0 has one into state 0
\* (Healthy), for every action; so a trajectory that is outside state 3 is
\* outside it after its next step, and likewise for state 0
C28_NoEntryIntoBothOrHealthy ==
    /\ [](TPReturned =>
            \A a \in Actions :
                /\ \A s \in States \ {3} : ptrans[s][a][3] = 0
                /\ \A s \in States \ {0} : ptrans[s][a][0] = 0)
    /\ [][(pc = "walk" /\ cur # 3) => cur' # 3]_vars
    /\ [][(pc = "walk" /\ cur # 0) => cur' # 0]_vars

\* a trajectory in Stroke-history, in a chain where a patient with a history
\* of CHD can have a stroke and survive it
C28_Witness ==
    /\ pc = "walk"
    /\ cur = 2
    /\ \E a \in Actions :
          /\ ptrans[1][a][5] > 0
          /\ ptrans[5][a][2] > 0
          /\ ptrans[3][a][3] > 0

\* post-treatment pressures of action a in state s, as lines 59-60 compute them
NewSbp(s, a) == pretrtsbp[s] - SbpReduc(s, a)
NewDbp(s, a) == pretrtdbp[s] - DbpReduc(s, a)

\* C11: every positive action TP_infinite marks feasible for a state leaves the
\* post-treatment pressure within the bounds on both sides: SBP at least sbpmin
\* and at most sbpmax, DBP at least dbpmin and at most dbpmax
C11_FeasibleWithinBothBounds ==
    TPReturned =>
        \A s \in States : \A a \in Actions \ {0} :
            feasible[s][a] = 1 =>
                /\ NewSbp(s, a) >= sbpmin /\ NewSbp(s, a) <= sbpmax
                /\ NewDbp(s, a) >= dbpmin /\ NewDbp(s, a) <= dbpmax

\* C12: a positive action is marked feasible only if the post-treatment SBP and
\* DBP are at least their lower bounds and the SBP reduction and the DBP
\* reduction are both non-negative
C12_FeasibleOnlyWithNonNegativeReductions ==
    TPReturned =>
        \A s \in States : \A a \in Actions \ {0} :
            feasible[s][a] = 1 =>
                /\ NewSbp(s, a) >= sbpmin /\ NewDbp(s, a) >= dbpmin
                /\ SbpReduc(s, a) >= 0 /\ DbpReduc(s, a) >= 0

\* C14: from an event state (4 or 5), under every action, the next state is a
\* history state (1, 2, 3) or a dead state (6-9): the entries towards 4, 5 and
\* the healthy state are 0
C14_EventStateLastsOnePeriod ==
    TPReturned =>
        \A s \in {4, 5} : \A a \in Actions : \A s2 \in {0, 4, 5} :
            ptrans[s][a][s2] = 0

\* the outcomes of a live row in the order of allocation, the alternate last
AllocationOrder(s) == << 8, 7, 6, 5, 4, Alternate(s) >>

\* the formula value of the i-th outcome before clipping (the alternate has none)
FormulaValue(s, a, i) ==
    CASE i = 1 -> StrokeDeathP(s, a)
      [] i = 2 -> ChdDeathP(s, a)
      [] i = 3 -> OtherDeathP
      [] i = 4 -> StrokeSurvP(s, a)
      [] i = 5 -> ChdSurvP(s, a)

\* the mass a row gives to the first i outcomes of the order
RECURSIVE Allocated(_, _, _)
Allocated(s, a, i) ==
    IF i = 0 THEN 0 ELSE Allocated(s, a, i - 1) + ptrans[s][a][AllocationOrder(s)[i]]

\* C18: a live row is allocated in the order 8, 7, 6, 5, 4, alternate; a step
\* whose formula value would bring the cumulative mass to 1 or above receives
\* exactly 1 minus the mass already allocated and every later outcome, the
\* alternate included, receives 0; otherwise the step receives its formula value
C18_PriorityOrderWithClipping ==
    TPReturned =>
        \A s \in Live : \A a \in Actions :
            /\ ptrans[s][a][8] = FormulaValue(s, a, 1)
            /\ \A i \in 2 .. 5 :
                  LET before == Allocated(s, a, i - 1)
                      entry == ptrans[s][a][AllocationOrder(s)[i]]
                  IN IF \E k \in 2 .. (i - 1) :
                           Allocated(s, a, k - 1) + FormulaValue(s, a, k) >= PScale
                     THEN entry = 0
                     ELSE IF before + FormulaValue(s, a, i) >= PScale
                     THEN /\ entry = PScale - before
                          /\ \A m \in (i + 1) .. 6 : ptrans[s][a][AllocationOrder(s)[m]] = 0
                     ELSE entry = FormulaValue(s, a, i)

\* a row clipped at the non-CVD death step: state 6 gets less than its formula
\* value, the event states and the alternate get nothing
C18_Witness ==
    /\ TPReturned
    /\ \E s \in Live : \E a \in Actions :
          /\ ptrans[s][a][8] > 0 /\ ptrans[s][a][7] > 0
          /\ ptrans[s][a][6] > 0 /\ ptrans[s][a][6] < OtherDeathP
          /\ StrokeSurvP(s, a) > 0
          /\ ptrans[s][a][5] = 0 /\ ptrans[s][a][4] = 0

\* the default state the claim gives for each live state
ClaimedAlternate == << 0, 1, 2, 3, 1, 2 >>

\* C19: in an unclipped row of a live state the mass left after the five
\* death/event outcomes goes to exactly one state, the alternate (3 for state
\* 3, 1 for states 1 and 4, 2 for states 2 and 5, 0 for state 0); every other
\* history or healthy state receives 0
C19_RemainderGoesToAlternate ==
    TPReturned =>
        \A s \in Live : \A a \in Actions :
            LET five == StrokeDeathP(s, a) + ChdDeathP(s, a) + OtherDeathP
                          + StrokeSurvP(s, a) + ChdSurvP(s, a)
            IN five < PScale =>
                 \A s2 \in {0, 1, 2, 3} :
                     ptrans[s][a][s2] =
                         IF s2 = ClaimedAlternate[s + 1] THEN PScale - five ELSE 0

\* an unclipped row of the CHD event state with events possible: the rest of
\* the mass is on the CHD history state
C19_Witness ==
    /\ TPReturned
    /\ \E a \in Actions :
          /\ ptrans[4][a][4] > 0
          /\ ptrans[4][a][1] > 0
          /\ ptrans[4][a][1] < PScale

\* ======================================================= titration engines
\* comparisons of floating-point values: any comparison with NaN is false
Lt(a, b) == a # NaN /\ b # NaN /\ a < b
Ge(a, b) == a # NaN /\ b # NaN /\ a >= b
Gt(a, b) == a # NaN /\ b # NaN /\ a > b
Minus(a, b) == IF a = NaN \/ b = NaN THEN NaN ELSE a - b

healthy == {0}

\* sbp_reductions_drugtype.py, lines 75-77: BPdrop = 9.1 + 0.1*(pretreatment - 154)
SBPreduc(pretreatment) == SBPdrop(91, pretreatment)

\* lines 80-105: all five reductions are computed, then one is selected
sbp_reductions_generic(trt, pretreatment) ==
    LET red_1std == SBPreduc(pretreatment)
        red_2std == red_1std + SBPreduc(pretreatment - red_1std)
        red_3std == red_2std + SBPreduc(pretreatment - red_2std)
        red_4std == red_3std + SBPreduc(pretreatment - red_3std)
        red_5std == red_4std + SBPreduc(pretreatment - red_4std)
    IN CASE trt = 0 -> 0
         [] trt = 1 -> red_1std
         [] trt = 2 -> red_2std
         [] trt = 3 -> red_3std
         [] trt = 4 -> red_4std
         [] trt = 5 -> red_5std
         [] OTHER -> NaN

\* dbp_reductions_drugtype.py is not among the sources: the diastolic twin of
\* the generic systolic dose response, 5.5 + 0.1*(pretreatment - 97) per dose
DBPreduc(pretreatment) == DBPdrop(55, pretreatment)

dbp_reductions_generic(trt, pretreatment) ==
    LET red_1std == DBPreduc(pretreatment)
        red_2std == red_1std + DBPreduc(pretreatment - red_1std)
        red_3std == red_2std + DBPreduc(pretreatment - red_2std)
        red_4std == red_3std + DBPreduc(pretreatment - red_3std)
        red_5std == red_4std + DBPreduc(pretreatment - red_4std)
    IN CASE trt = 0 -> 0
         [] trt = 1 -> red_1std
         [] trt = 2 -> red_2std
         [] trt = 3 -> red_3std
         [] trt = 4 -> red_4std
         [] trt = 5 -> red_5std
         [] OTHER -> NaN

PostSbp(presbp, trt) == Minus(presbp, sbp_reductions_generic(trt, presbp))
PostDbp(predbp, trt) == Minus(predbp, dbp_reductions_generic(trt, predbp))

\* the engines' feasibility test of a level (aha lines 60, 88, 99; risk line 55)
Infeasible(presbp, predbp, trt) ==
    \/ (Lt(PostSbp(presbp, trt), sbpmin) \/ Lt(sbp_reductions_generic(trt, presbp), 0))
    \/ (Lt(PostDbp(predbp, trt), dbpmin) \/ Lt(dbp_reductions_generic(trt, predbp), 0))

\* risk with the past treatment 0 (aha lines 31-35, risk lines 30-33), over RD/1000
UntreatedRisk(hh) ==
    new_risk(sbp_reductions_generic(0, pretrtsbp[hh]), periodrisk10[hh][0], 0)
    + new_risk(sbp_reductions_generic(0, pretrtsbp[hh]), periodrisk10[hh][1], 1)

\* the while condition of the two aha loops (lines 45, 71)
OffTarget(sbp, dbp) == Ge(sbp, targetsbp) \/ Ge(dbp, targetdbp)

\* aha line 40-41: the condition of the first regime
Stage1Cond(hh, risk, sbp, dbp) ==
    \/ /\ (risk >= targetrisk * RD \/ hh \notin healthy)
       /\ (sbp >= 130 * BPScale \/ dbp >= 80 * BPScale)
    \/ /\ (sbp >= 140 * BPScale \/ dbp >= 90 * BPScale)
       /\ (sbp < targetsbp + 20 * BPScale /\ dbp < targetdbp + 10 * BPScale)

\* aha line 68: the condition of the second regime
Stage2Cond(sbp, dbp) == sbp >= targetsbp + 20 * BPScale \/ dbp >= targetdbp + 10 * BPScale

\* aha lines 48-51 and risk lines 43-46: the level proposed by one escalation
Escalate(past) == IF past + 1 > numeds THEN past ELSE past + 1

\* aha lines 74-79
Stage2Proposal(past) ==
    IF past + 1 > numeds THEN past
    ELSE IF past < 2 THEN 2
    ELSE past + 1

\* one month of the first regime (aha lines 47-66) and of the risk engine
\* (lines 42-61): the level accepted and the pressures the loop goes on with
EscalateMonth(presbp, predbp, past) ==
    LET new_trt == Escalate(past)
    IN [ level |-> IF Infeasible(presbp, predbp, new_trt) THEN past ELSE new_trt,
         sbp |-> PostSbp(presbp, new_trt),
         dbp |-> PostDbp(predbp, new_trt) ]

\* a month of the second regime that never falls back one level
Stage2MonthNoFallback(presbp, predbp, past) ==
    LET new_trt == Stage2Proposal(past)
    IN [ level |-> IF Infeasible(presbp, predbp, new_trt) THEN past ELSE new_trt,
         sbp |-> PostSbp(presbp, new_trt),
         dbp |-> PostDbp(predbp, new_trt) ]

\* one month of the second regime (aha lines 73-107)
Stage2Month(presbp, predbp, past) ==
    LET new_trt == Stage2Proposal(past)
        alt_trt == new_trt - 1
    IN IF Infeasible(presbp, predbp, new_trt)
       THEN [ level |-> IF Infeasible(presbp, predbp, alt_trt) THEN past ELSE alt_trt,
              sbp |-> PostSbp(presbp, alt_trt),
              dbp |-> PostDbp(predbp, alt_trt) ]
       ELSE [ level |-> new_trt,
              sbp |-> PostSbp(presbp, new_trt),
              dbp |-> PostDbp(predbp, new_trt) ]

\* the end of the body of "for h": the next state, or the return
EngNextState(done) ==
    IF h + 1 < numhealth
    THEN /\ h' = h + 1
         /\ pc' = IF done = "aha_done" THEN "aha_state" ELSE "risk_state"
    ELSE /\ h' = h
         /\ pc' = done

\* ---- aha_guideline_infinite
\* lines 27-41, 68, 108-109: the start of the body for state h, and its regime
AhaClassify ==
    /\ pc = "aha_state"
    /\ past_trt' = 0
    /\ post_trt_risk' = UntreatedRisk(h)
    /\ post_trt_sbp' = PostSbp(pretrtsbp[h], 0)
    /\ post_trt_dbp' = PostDbp(pretrtdbp[h], 0)
    /\ IF Stage1Cond(h, UntreatedRisk(h), PostSbp(pretrtsbp[h], 0), PostDbp(pretrtdbp[h], 0))
       THEN /\ month' = 1
            /\ pc' = "aha_stage1"
            /\ UNCHANGED << policy, h >>
       ELSE IF Stage2Cond(PostSbp(pretrtsbp[h], 0), PostDbp(pretrtdbp[h], 0))
       THEN /\ month' = 1
            /\ pc' = "aha_stage2"
            /\ UNCHANGED << policy, h >>
       ELSE /\ policy' = [policy EXCEPT ![h] = 0]
            /\ UNCHANGED month
            /\ EngNextState("aha_done")
    /\ UNCHANGED << evVars, excVars, tpInputs, feasible, ptrans, j, cur, engInputs, piInputs, piVars, simVars >>

\* lines 45-66: one pass of the while loop of the first regime
AhaStage1Month ==
    /\ pc = "aha_stage1"
    /\ month <= 12 /\ OffTarget(post_trt_sbp, post_trt_dbp)
    /\ LET m == EscalateMonth(pretrtsbp[h], pretrtdbp[h], past_trt)
       IN /\ policy' = [policy EXCEPT ![h] = m.level]
          /\ past_trt' = m.level
          /\ post_trt_sbp' = m.sbp
          /\ post_trt_dbp' = m.dbp
    /\ month' = month + 1
    /\ UNCHANGED << evVars, excVars, tpInputs, tpVars, pc, cur, engInputs, post_trt_risk, piInputs, piVars, simVars >>

\* lines 71-107: one pass of the while loop of the second regime
AhaStage2Month ==
    /\ pc = "aha_stage2"
    /\ month <= 12 /\ OffTarget(post_trt_sbp, post_trt_dbp)
    /\ LET m == Stage2Month(pretrtsbp[h], pretrtdbp[h], past_trt)
       IN /\ policy' = [policy EXCEPT ![h] = m.level]
          /\ past_trt' = m.level
          /\ post_trt_sbp' = m.sbp
          /\ post_trt_dbp' = m.dbp
    /\ month' = month + 1
    /\ UNCHANGED << evVars, excVars, tpInputs, tpVars, pc, cur, engInputs, post_trt_risk, piInputs, piVars, simVars >>

\* the while condition of either loop is false: on to the next state
AhaLoopExit ==
    /\ pc \in {"aha_stage1", "aha_stage2"}
    /\ ~(month <= 12 /\ OffTarget(post_trt_sbp, post_trt_dbp))
    /\ EngNextState("aha_done")
    /\ UNCHANGED << evVars, excVars, tpInputs, feasible, ptrans, j, cur, engInputs, engVars, piInputs, piVars, simVars >>

\* ---- risk_policy_infinite
\* lines 26-36, 62-63
RiskClassify ==
    /\ pc = "risk_state"
    /\ past_trt' = 0
    /\ post_trt_risk' = UntreatedRisk(h)
    /\ IF UntreatedRisk(h) >= (targetrisk - targetdiff) * RD
       THEN /\ month' = 1
            /\ pc' = "risk_loop"
            /\ UNCHANGED << policy, h >>
       ELSE /\ policy' = [policy EXCEPT ![h] = 0]
            /\ UNCHANGED month
            /\ EngNextState("risk_done")
    /\ UNCHANGED << evVars, excVars, tpInputs, feasible, ptrans, j, cur, engInputs, post_trt_sbp, post_trt_dbp, piInputs, piVars, simVars >>

\* lines 40-61: one pass of the while loop; post_trt_risk is not recomputed
RiskMonth ==
    /\ pc = "risk_loop"
    /\ month <= 12 /\ post_trt_risk >= (targetrisk - targetdiff) * RD
    /\ LET m == EscalateMonth(pretrtsbp[h], pretrtdbp[h], past_trt)
       IN /\ policy' = [policy EXCEPT ![h] = m.level]
          /\ past_trt' = m.level
          /\ post_trt_sbp' = m.sbp
          /\ post_trt_dbp' = m.dbp
    /\ month' = month + 1
    /\ UNCHANGED << evVars, excVars, tpInputs, tpVars, pc, cur, engInputs, post_trt_risk, piInputs, piVars, simVars >>

RiskLoopExit ==
    /\ pc = "risk_loop"
    /\ ~(month <= 12 /\ post_trt_risk >= (targetrisk - targetdiff) * RD)
    /\ EngNextState("risk_done")
    /\ UNCHANGED << evVars, excVars, tpInputs, feasible, ptrans, j, cur, engInputs, engVars, piInputs, piVars, simVars >>

\* ---- inputs of the engines
\* 10-year (CHD, stroke) risk of every state, in 1/1000: low, moderate, high
Risk10Vals == { <<20, 20>>, <<40, 40>>, <<60, 60>> }
\* pre-treatment (SBP, DBP) pairs, in mm Hg
EngSbpVals == {110, 130, 135, 145, 165}
EngDbpVals == {70, 85, 95}
\* (targetsbp, targetdbp): the guideline's targets, and targets one stage higher
TargetVals == { <<130, 80>>, <<150, 90>> }
\* the largest intensity the generic dose response knows
MaxMeds == 5

EngInputsInit ==
    /\ \E r10 \in Risk10Vals :
          periodrisk10 = [s \in States |-> [k \in Events |-> r10[k + 1]]]
    /\ \E sbp \in EngSbpVals : pretrtsbp = [s \in States |-> sbp * BPScale]
    /\ \E dbp \in EngDbpVals : pretrtdbp = [s \in States |-> dbp * BPScale]
    /\ \E t \in TargetVals : targetsbp = t[1] * BPScale /\ targetdbp = t[2] * BPScale
    /\ targetrisk = 100
    /\ targetdiff = 25
    /\ numeds \in 0 .. MaxMeds
    /\ sbpmin = 120 * BPScale
    /\ dbpmin = 55 * BPScale
    /\ sbpmax = 150 * BPScale
    /\ dbpmax = 90 * BPScale
    \* a nonzero reduction halves the risk (rounded down in units of 1/RD)
    /\ rrfactor = [k \in Events |-> RD \div 2]

EngLocalsInit ==
    /\ policy = [s \in States |-> NaN]
    /\ past_trt = 0 /\ month = 0
    /\ post_trt_sbp = 0 /\ post_trt_dbp = 0 /\ post_trt_risk = 0
    /\ h = 0

\* the transition model's variables while the engines run alone
TPIdle ==
    /\ periodrisk = [s \in States |-> [k \in Events |-> 0]]
    /\ chddeath = 0 /\ strokedeath = 0 /\ alldeath = 0
    /\ alldrugs = SubSeq(DrugMenu, 1, 1)
    /\ feasible = [s \in States |-> [a \in Actions |-> NaN]]
    /\ ptrans = [s \in States |-> [a \in Actions |-> ZeroRow]]
    /\ j = 0
    /\ cur = 0

\* the pressures and bounds while neither TP_infinite nor an engine runs
TPInputsIdle ==
    /\ pretrtsbp = [s \in States |-> 0]
    /\ pretrtdbp = [s \in States |-> 0]
    /\ sbpmin = 0 /\ dbpmin = 0 /\ sbpmax = 0 /\ dbpmax = 0
    /\ rrfactor = [k \in Events |-> RD]

InitEng ==
    /\ EngInputsInit
    /\ EngLocalsInit
    /\ TPIdle
    /\ PIIdle
    /\ EvalIdle
    /\ ExcIdle
    /\ pc \in {"aha_state", "risk_state"}

NextEng ==
    \/ AhaClassify \/ AhaStage1Month \/ AhaStage2Month \/ AhaLoopExit
    \/ RiskClassify \/ RiskMonth \/ RiskLoopExit

SpecEng == InitEng /\ [][NextEng]_vars

\* ================================================= policy_evaluation_infinite
\* values and rewards are held in units of 1/VScale, rounded down after every
\* backup, where the program holds binary64 numbers
VScale == 1024 * 1024
\* tolerance = 1e-6: a difference d of value units is below it iff d < Tolerance
Tolerance == VScale \div 1000000 + 1

Abs(x) == IF x < 0 THEN 0 - x ELSE x

\* np.dot(P[s, :, a], V): row[t] over PScale; the value of state t is V[t + 1],
\* over VScale
RECURSIVE Dot(_, _, _)
Dot(row, V, n) == IF n = 0 THEN 0 ELSE Dot(row, V, n - 1) + row[n - 1] * V[n]

NumStates(rw) == Cardinality(DOMAIN rw)
NumActions(rw) == Cardinality(DOMAIN rw[0])

\* r[s, a] + gamma * np.dot(P[s, :, a], V)  (lines 38 and 119)
QValue(s, a, V) ==
    r[s][a] + (gamma[1] * Dot(P[s][a], V, NumStates(r))) \div (gamma[2] * PScale)

RECURSIVE MaxDiff(_, _, _)
MaxDiff(V, W, n) ==
    IF n = 0 THEN 0 ELSE Max(MaxDiff(V, W, n - 1), Abs(V[n] - W[n]))

\* a sweep in place: the value of state n-1 is computed from the values
\* already updated in the same sweep
RECURSIVE SweepInPlace(_, _, _)
SweepInPlace(pi, V, n) ==
    IF n = 0 THEN << >>
    ELSE LET done == SweepInPlace(pi, V, n - 1)
         IN Append(done, QValue(n - 1, pi[n - 1], done \o SubSeq(V, n, Len(V))))

\* lines 36-38: the new values of the states 0 .. n-1 from the old values V
RECURSIVE Sweep(_, _, _)
Sweep(pi, V, n) ==
    IF n = 0 THEN << >>
    ELSE Append(Sweep(pi, V, n - 1), QValue(n - 1, pi[n - 1], V))

RECURSIVE Zeros(_)
Zeros(n) == IF n = 0 THEN << >> ELSE Append(Zeros(n - 1), 0)

\* lines 33-44: the sweeps from number it on, V_pi being V
RECURSIVE EvalSweeps(_, _, _, _)
EvalSweeps(pi, V, it, maxit) ==
    IF it >= maxit THEN V
    ELSE LET W == Sweep(pi, V, NumStates(r))
         IN IF MaxDiff(W, V, NumStates(r)) < Tolerance
            THEN W
            ELSE EvalSweeps(pi, W, it + 1, maxit)

\* evaluate_pi_infinite(pi, P, r, gamma, max_iterations, tolerance)
evaluate_pi_infinite(pi, maxit) ==
    EvalSweeps(pi, Zeros(NumStates(r)), 0, maxit)

\* an index of the smallest entry, where line 120 takes the largest
RECURSIVE ArgMin(_, _, _)
ArgMin(s, V, n) ==
    IF n = 1 THEN 0
    ELSE LET b == ArgMin(s, V, n - 1)
         IN IF QValue(s, n - 1, V) < QValue(s, b, V) THEN n - 1 ELSE b

\* np.argmax(Q_values): the first index of the largest Q value of state s
RECURSIVE ArgMax(_, _, _)
ArgMax(s, V, n) ==
    IF n = 1 THEN 0
    ELSE LET b == ArgMax(s, V, n - 1)
         IN IF QValue(s, n - 1, V) > QValue(s, b, V) THEN n - 1 ELSE b

\* the last index of the largest Q value, where np.argmax takes the first
GreedyLast(V) ==
    [s \in DOMAIN r |->
        CHOOSE a \in DOMAIN r[s] :
            /\ \A b \in DOMAIN r[s] : QValue(s, b, V) <= QValue(s, a, V)
            /\ \A b \in DOMAIN r[s] : b > a => QValue(s, b, V) < QValue(s, a, V)]

\* lines 116-120: the improvement step
Greedy(V) == [s \in DOMAIN r |-> ArgMax(s, V, NumActions(r))]

\* lines 109-126: one pass of the policy iteration loop; the function returns
\* after the pass that leaves the policy unchanged (line 123) and after the
\* last pass of range(max_iterations)
PIRound ==
    /\ pc = "pi_loop"
    /\ iteration < max_iterations
    /\ pi_old' = pi_opt
    /\ V_opt' = evaluate_pi_infinite(pi_opt, max_iterations)
    /\ pi_opt' = Greedy(V_opt')
    /\ iteration' = iteration + 1
    /\ pc' = IF pi_opt' = pi_old' \/ iteration' >= max_iterations
             THEN "pi_done"
             ELSE "pi_loop"
    /\ UNCHANGED << evVars, excVars, tpInputs, tpVars, cur, engInputs, engVars, piInputs, simVars >>

\* ---- instances of policy_improvement_infinite
PIStates == 0 .. 1
PIActions == 0 .. 1
\* rows of P: stay in state 0, stay in state 1, or half and half
PIRows ==
    { [t \in PIStates |-> IF t = 0 THEN PScale ELSE 0],
      [t \in PIStates |-> IF t = 1 THEN PScale ELSE 0],
      [t \in PIStates |-> IF t = 0 THEN PScale \div 2 ELSE PScale - PScale \div 2] }
\* rewards of state 0 and of state 1, in units of quality of life
PIRewards == << {0, 1}, {1, 2} >>
\* the largest max_iterations
MaxIter == 5

InitPI ==
    /\ P \in [PIStates -> [PIActions -> PIRows]]
    /\ \E q \in [PIStates -> [PIActions -> 0 .. 2]] :
          /\ \A s \in PIStates : \A a \in PIActions : q[s][a] \in PIRewards[s + 1]
          /\ r = [s \in PIStates |-> [a \in PIActions |-> q[s][a] * VScale]]
    /\ gamma = << 1, 2 >>
    /\ max_iterations \in {1, 2, MaxIter}
    \* line 106: np.random.randint(0, A, S)
    /\ pi_opt \in [PIStates -> PIActions]
    /\ pi_old = << >> /\ V_opt = << >>
    /\ iteration = 0
    /\ pi_aha = << >> /\ pi_risk = << >>
    /\ pc = "pi_loop"
    /\ TPInputsIdle
    /\ TPIdle
    /\ h = 0
    /\ EngIdle
    /\ EvalIdle
    /\ ExcIdle

NextPI == PIRound

SpecPI == InitPI /\ [][NextPI]_vars

PIReturned == pc = "pi_done"

\* C5 as stated: policy_improvement_infinite stops before the iteration cap,
\* that is because a pass left the policy unchanged (line 123) and not because
\* range(max_iterations) is used up, and the policy returned is greedy for the
\* value returned
C5_StopsBeforeCapAtGreedyFixedPoint ==
    PIReturned =>
        /\ pi_opt = pi_old
        /\ \A s \in DOMAIN r : \A a \in DOMAIN r[s] :
              QValue(s, a, V_opt) <= QValue(s, pi_opt[s], V_opt)

\* C5 as amended: policy_improvement_infinite makes at most max_iterations
\* passes, and whenever it returns, by the test of line 123 or at the cap, no
\* action of any state has a strictly larger r(s,a) + gamma * sum P(s,s',a) V(s')
\* under the returned V than the action of the returned policy
C5_StopsByCapAtGreedyPolicy ==
    /\ iteration <= max_iterations
    /\ PIReturned =>
          \A s \in DOMAIN r : \A a \in DOMAIN r[s] :
              QValue(s, a, V_opt) <= QValue(s, pi_opt[s], V_opt)

\* a run cut off by the cap while the policy was still changing, in an
\* instance where the choice of the action matters
C5_Witness ==
    /\ PIReturned
    /\ max_iterations = MaxIter
    /\ iteration = max_iterations
    /\ pi_opt # pi_old
    /\ \E s \in DOMAIN r : \E a \in DOMAIN r[s] :
          QValue(s, a, V_opt) < QValue(s, pi_opt[s], V_opt)

\* ---- policy_improvement_infinite as a function of the first policy
\* a policy as a sequence: the action of state t is q[t + 1]
RECURSIVE PolicySeq(_, _)
PolicySeq(pi, n) == IF n = 0 THEN << >> ELSE Append(PolicySeq(pi, n - 1), pi[n - 1])

\* lines 116-120, for the states 0 .. n-1
RECURSIVE GreedyUpTo(_, _)
GreedyUpTo(V, n) ==
    IF n = 0 THEN << >>
    ELSE Append(GreedyUpTo(V, n - 1), ArgMax(n - 1, V, NumActions(r)))

\* lines 109-126: the passes from number it on, the policy being q
RECURSIVE Improve(_, _)
Improve(q, it) ==
    LET pi == [s \in DOMAIN r |-> q[s + 1]]
        V == evaluate_pi_infinite(pi, max_iterations)
        g == GreedyUpTo(V, NumStates(r))
    IN IF g = q \/ it + 1 >= max_iterations
       THEN [pi |-> [s \in DOMAIN r |-> g[s + 1]], V |-> V]
       ELSE Improve(g, it + 1)

\* what policy_improvement_infinite returns when line 106 draws first
policy_improvement_infinite(first) == Improve(PolicySeq(first, NumStates(r)), 0)

\* the function above is the loop of the state machine: what is returned is
\* the function's result for some first policy
ImproveIsLoop ==
    PIReturned =>
        \E first \in [DOMAIN r -> DOMAIN r[0]] :
            policy_improvement_infinite(first) = [pi |-> pi_opt, V |-> V_opt]

\* C30: for a fixed instance (P, r, gamma, cap, tolerance) the policy and the
\* value vector returned by policy_improvement_infinite are the same for
\* every first policy line 106 can draw
C30_OutputIndependentOfFirstPolicy ==
    PIReturned =>
        \A first \in [DOMAIN r -> DOMAIN r[0]] :
            policy_improvement_infinite(first) = [pi |-> pi_opt, V |-> V_opt]

\* C27: on every return of policy_improvement_infinite, by the test of line
\* 123 or at the cap, the value vector returned is what evaluate_pi_infinite
\* gives for the policy returned
C27_ReturnedValueIsOfReturnedPolicy ==
    PIReturned => V_opt = evaluate_pi_infinite(pi_opt, max_iterations)

\* C16: after every greedy improvement step of policy_improvement_infinite the
\* action chosen for a state attains the maximal value
\* r(s,a) + gamma * sum P(s,s',a) V(s'), and every action with a lower index
\* has a strictly smaller value: among tied maximal actions the lowest index
\* is selected
C16_TiesBrokenByLowestIndex ==
    iteration > 0 =>
        \A s \in DOMAIN r :
            /\ \A a \in DOMAIN r[s] :
                  QValue(s, a, V_opt) <= QValue(s, pi_opt[s], V_opt)
            /\ \A a \in DOMAIN r[s] :
                  a < pi_opt[s] => QValue(s, a, V_opt) < QValue(s, pi_opt[s], V_opt)

\* an improvement step in which two actions of a state tie at the maximum and
\* the tie is between actions that differ in reward or in transition row
C16_Witness ==
    /\ iteration > 0
    /\ \E s \in DOMAIN r : \E a \in DOMAIN r[s] :
          /\ a > pi_opt[s]
          /\ QValue(s, a, V_opt) = QValue(s, pi_opt[s], V_opt)
          /\ P[s][a] # P[s][pi_opt[s]]

\* ---- the two evaluation functions, sweep by sweep
\* an undiscounted sweep of the events recursion
RECURSIVE EventsSweepNoDiscount(_, _, _)
EventsSweepNoDiscount(pi, E, n) ==
    IF n = 0 THEN << >>
    ELSE Append(EventsSweepNoDiscount(pi, E, n - 1),
                event_states[n - 1] * VScale
                + Dot(P[n - 1][pi[n - 1]], E, NumStates(r)) \div PScale)

\* evaluate_events_infinite, lines 74-76: the new expected events of the states
\* 0 .. n-1 from the old ones E
RECURSIVE EventsSweep(_, _, _)
EventsSweep(pi, E, n) ==
    IF n = 0 THEN << >>
    ELSE Append(EventsSweep(pi, E, n - 1),
                event_states[n - 1] * VScale
                + (gamma[1] * Dot(P[n - 1][pi[n - 1]], E, NumStates(r)))
                    \div (gamma[2] * PScale))

\* a pass of the loop without the test of line 41
EvalPiSweepNoBreak ==
    /\ pc = "eval"
    /\ ~V_returned /\ V_iteration < max_iterations
    /\ V_pi_old' = V_pi
    /\ V_pi' = Sweep(pi_opt, V_pi, NumStates(r))
    /\ V_iteration' = V_iteration + 1
    /\ V_returned' = (V_iteration' >= max_iterations)
    /\ UNCHANGED << event_states, E_pi, E_pi_old, E_iteration, E_returned, excVars,
                    tpInputs, tpVars, pc, cur, engInputs, engVars, piInputs, piVars,
                    simVars >>

\* evaluate_pi_infinite, lines 33-44: one pass of the loop, and the return
\* after the pass that converged or was the last of range(max_iterations)
EvalPiSweep ==
    /\ pc = "eval"
    /\ ~V_returned /\ V_iteration < max_iterations
    /\ V_pi_old' = V_pi
    /\ V_pi' = Sweep(pi_opt, V_pi, NumStates(r))
    /\ V_iteration' = V_iteration + 1
    /\ V_returned' = (\/ MaxDiff(V_pi', V_pi_old', NumStates(r)) < Tolerance
                      \/ V_iteration' >= max_iterations)
    /\ UNCHANGED << event_states, E_pi, E_pi_old, E_iteration, E_returned, excVars,
                    tpInputs, tpVars, pc, cur, engInputs, engVars, piInputs, piVars,
                    simVars >>

\* evaluate_events_infinite, lines 71-82: one pass of the loop, and the return
EvalEventsSweep ==
    /\ pc = "eval"
    /\ ~E_returned /\ E_iteration < max_iterations
    /\ E_pi_old' = E_pi
    /\ E_pi' = EventsSweep(pi_opt, E_pi, NumStates(r))
    /\ E_iteration' = E_iteration + 1
    /\ E_returned' = (\/ MaxDiff(E_pi', E_pi_old', NumStates(r)) < Tolerance
                      \/ E_iteration' >= max_iterations)
    /\ UNCHANGED << event_states, V_pi, V_pi_old, V_iteration, V_returned, excVars,
                    tpInputs, tpVars, pc, cur, engInputs, engVars, piInputs, piVars,
                    simVars >>

\* the reward of evaluate_pi_infinite that counts the events
EventReward == [s \in PIStates |-> [a \in PIActions |-> event_states[s] * VScale]]
\* a reward that depends on the state and on the action
StateActionReward == [s \in PIStates |-> [a \in PIActions |-> (2 - s - a) * VScale]]

\* both functions are called with the same policy, tensor, discount and cap
InitEval ==
    /\ P \in [PIStates -> [PIActions -> PIRows]]
    /\ event_states \in [PIStates -> {0, 1}]
    /\ r \in {EventReward, StateActionReward}
    /\ gamma = << 1, 2 >>
    /\ max_iterations \in {1, MaxIter}
    /\ pi_opt \in [PIStates -> PIActions]
    /\ pi_old = << >> /\ V_opt = << >>
    /\ iteration = 0
    /\ pi_aha = << >> /\ pi_risk = << >>
    \* lines 30 and 69: np.zeros(S)
    /\ V_pi = Zeros(NumStates(r)) /\ V_pi_old = << >>
    /\ E_pi = Zeros(NumStates(r)) /\ E_pi_old = << >>
    /\ V_iteration = 0 /\ E_iteration = 0
    /\ V_returned = FALSE /\ E_returned = FALSE
    /\ pc = "eval"
    /\ TPInputsIdle
    /\ TPIdle
    /\ h = 0
    /\ EngIdle
    /\ ExcIdle

NextEval == EvalPiSweep \/ EvalEventsSweep

SpecEval == InitEval /\ [][NextEval]_vars

\* C15: when evaluate_pi_infinite is run with the reward r[s, a] =
\* event_states[s] for every action, it and evaluate_events_infinite hold the
\* same vector after the same number of sweeps, make the same number of sweeps,
\* and return the same vector
C15_EventsEvaluationIsPiEvaluation ==
    (pc = "eval" /\ r = EventReward) =>
        /\ V_iteration = E_iteration => V_pi = E_pi
        /\ (V_returned /\ E_returned) => (V_iteration = E_iteration /\ V_pi = E_pi)

\* both have returned after more than one sweep, with a vector that is not zero
C15_Witness ==
    /\ pc = "eval" /\ r = EventReward
    /\ V_returned /\ E_returned
    /\ E_iteration > 1
    /\ \E t \in DOMAIN E_pi : E_pi[t] > 0

\* k applications of the Bellman expectation operator of the policy to the
\* zero vector, at state s
RECURSIVE BellmanK(_, _)
BellmanK(s, k) ==
    IF k = 0 THEN 0
    ELSE r[s][pi_opt[s]]
         + (gamma[1] * (P[s][pi_opt[s]][0] * BellmanK(0, k - 1)
                        + P[s][pi_opt[s]][1] * BellmanK(1, k - 1)))
             \div (gamma[2] * PScale)

\* C20: evaluate_pi_infinite starts from the zero vector, and after k sweeps
\* the value of every state is the k-fold application of the Bellman
\* expectation operator to zero: every sweep reads the previous sweep's vector
\* only
C20_SynchronousSweeps ==
    pc = "eval" =>
        \A s \in DOMAIN r : V_pi[s + 1] = BellmanK(s, V_iteration)

\* several sweeps were made, and a state whose row leads to both states has a
\* successor whose value changed in the last sweep
C20_Witness ==
    /\ pc = "eval"
    /\ V_iteration = MaxIter
    /\ \E s \in DOMAIN r :
          /\ P[s][pi_opt[s]][0] > 0 /\ P[s][pi_opt[s]][1] > 0
          /\ V_pi[1] # V_pi_old[1]

\* evaluate_pi_infinite alone; the loop of lines 33-42 goes on while it can
SpecEvalPi == InitEval /\ [][EvalPiSweep]_vars /\ WF_vars(EvalPiSweep)

\* the change of the last sweep, line 41
LastChange == MaxDiff(V_pi, V_pi_old, NumStates(r))

\* C21: evaluate_pi_infinite always returns; it never makes more than
\* max_iterations sweeps, it goes on only after a sweep whose largest change
\* was at or above the tolerance, and it returns after the first sweep whose
\* largest change is below the tolerance or else after exactly max_iterations
\* sweeps, with the last vector as its result
C21_EvaluationTerminates ==
    /\ [](pc = "eval" =>
            /\ V_iteration <= max_iterations
            /\ (~V_returned /\ V_iteration > 0) => LastChange >= Tolerance
            /\ V_returned =>
                  /\ V_iteration > 0
                  /\ (LastChange < Tolerance \/ V_iteration = max_iterations)
                  /\ Len(V_pi) = NumStates(r))
    /\ <>V_returned

\* a return before the cap, after a sweep that changed nothing in a vector
\* that is not zero
C21_Witness ==
    /\ pc = "eval"
    /\ V_returned
    /\ V_iteration > 1
    /\ V_iteration < max_iterations
    /\ LastChange < Tolerance
    /\ \E t \in DOMAIN V_pi : V_pi[t] > 0

\* ---- the guideline engine as a function of one state's pressures
RECURSIVE AhaStage1Loop(_, _, _, _, _, _, _)
AhaStage1Loop(presbp, predbp, past, mon, sbp, dbp, level) ==
    IF mon <= 12 /\ OffTarget(sbp, dbp)
    THEN LET m == EscalateMonth(presbp, predbp, past)
         IN AhaStage1Loop(presbp, predbp, m.level, mon + 1, m.sbp, m.dbp, m.level)
    ELSE level

RECURSIVE AhaStage2Loop(_, _, _, _, _, _, _)
AhaStage2Loop(presbp, predbp, past, mon, sbp, dbp, level) ==
    IF mon <= 12 /\ OffTarget(sbp, dbp)
    THEN LET m == Stage2Month(presbp, predbp, past)
         IN AhaStage2Loop(presbp, predbp, m.level, mon + 1, m.sbp, m.dbp, m.level)
    ELSE level

\* policy[hh] of aha_guideline_infinite when state hh has the pressures given
\* and every other input is the current one
AhaLevel(hh, presbp, predbp) ==
    IF Stage1Cond(hh, UntreatedRisk(hh), PostSbp(presbp, 0), PostDbp(predbp, 0))
    THEN AhaStage1Loop(presbp, predbp, 0, 1, PostSbp(presbp, 0), PostDbp(predbp, 0), NaN)
    ELSE IF Stage2Cond(PostSbp(presbp, 0), PostDbp(predbp, 0))
    THEN AhaStage2Loop(presbp, predbp, 0, 1, PostSbp(presbp, 0), PostDbp(predbp, 0), NaN)
    ELSE 0

AhaReturned == pc = "aha_done"
RiskReturned == pc = "risk_done"

\* the function above is the engine: the loop of the state machine returns it
AhaLevelIsPolicy ==
    AhaReturned => \A s \in States : policy[s] = AhaLevel(s, pretrtsbp[s], pretrtdbp[s])

\* C6: for every state and every input, the level returned by
\* aha_guideline_infinite and by risk_policy_infinite never exceeds the
\* configured maximum intensity numtrt, also when numtrt is below 2
C6_LevelNeverExceedsNumtrt ==
    (AhaReturned \/ RiskReturned) => \A s \in States : ~Gt(policy[s], numeds)

\* C8: when one state's pre-treatment SBP or DBP is raised and everything else
\* is kept, the level aha_guideline_infinite returns for that state is greater
\* than or equal to the level of the first run
C8_AhaMonotoneInPressure ==
    AhaReturned =>
        \A s \in States :
            /\ \A sbp2 \in EngSbpVals :
                  sbp2 * BPScale > pretrtsbp[s]
                    => Ge(AhaLevel(s, sbp2 * BPScale, pretrtdbp[s]), policy[s])
            /\ \A dbp2 \in EngDbpVals :
                  dbp2 * BPScale > pretrtdbp[s]
                    => Ge(AhaLevel(s, pretrtsbp[s], dbp2 * BPScale), policy[s])

\* state hh is classified in the second regime: the test of line 40-41 fails
\* and the test of line 68 holds
InStage2(hh) ==
    /\ ~Stage1Cond(hh, UntreatedRisk(hh), PostSbp(pretrtsbp[hh], 0), PostDbp(pretrtdbp[hh], 0))
    /\ Stage2Cond(PostSbp(pretrtsbp[hh], 0), PostDbp(pretrtdbp[hh], 0))

\* C22: in aha_guideline_infinite with numtrt >= 2, the first monthly step of
\* a state in the stage-2 regime proposes level 2, and the level returned for
\* such a state is at least 2 when level 2 is feasible, 1 when level 2 is
\* infeasible and level 1 is feasible, and 0 when neither is feasible
C22_Stage2StartsAtTwoAgents ==
    numeds >= 2 =>
        /\ (pc = "aha_stage2" /\ month = 1) => Stage2Proposal(past_trt) = 2
        /\ AhaReturned =>
              \A s \in States :
                  InStage2(s) =>
                      IF ~Infeasible(pretrtsbp[s], pretrtdbp[s], 2) THEN policy[s] >= 2
                      ELSE IF ~Infeasible(pretrtsbp[s], pretrtdbp[s], 1) THEN policy[s] = 1
                      ELSE policy[s] = 0

\* a state of the stage-2 regime for which two agents are infeasible and one
\* agent is feasible
C22_Witness ==
    /\ AhaReturned
    /\ numeds >= 2
    /\ \E s \in States :
          /\ InStage2(s)
          /\ Infeasible(pretrtsbp[s], pretrtdbp[s], 2)
          /\ ~Infeasible(pretrtsbp[s], pretrtdbp[s], 1)
          /\ policy[s] = 1

\* C23: in aha_guideline_infinite the monthly loop of a state ends before 12
\* monthly steps were made only when the pressure under the level accepted
\* for the state is on target (post-treatment SBP below targetsbp and DBP
\* below targetdbp); a rejected proposal never ends the loop early
C23_EarlyExitOnlyOnTarget ==
    (pc \in {"aha_stage1", "aha_stage2"} /\ month <= 12 /\ ENABLED AhaLoopExit)
        => ~OffTarget(PostSbp(pretrtsbp[h], past_trt), PostDbp(pretrtdbp[h], past_trt))

\* the feasibility the engines test for (aha lines 60, 88, 99; risk line 55),
\* stated positively: both pressures at or above their minimum and both
\* reductions non-negative
FeasibleLevel(presbp, predbp, trt) ==
    /\ Ge(PostSbp(presbp, trt), sbpmin) /\ Ge(sbp_reductions_generic(trt, presbp), 0)
    /\ Ge(PostDbp(predbp, trt), dbpmin) /\ Ge(dbp_reductions_generic(trt, predbp), 0)

\* C24: in aha_guideline_infinite and in risk_policy_infinite, with numtrt at
\* most 5, the level accepted at every monthly step is 0 or a level whose
\* post-treatment SBP and DBP are at or above sbpmin and dbpmin with both
\* reductions non-negative, and so is every positive level returned
C24_AcceptedLevelsAreFeasible ==
    /\ pc \in {"aha_stage1", "aha_stage2", "risk_loop"} =>
          (past_trt = 0 \/ FeasibleLevel(pretrtsbp[h], pretrtdbp[h], past_trt))
    /\ (AhaReturned \/ RiskReturned) =>
          \A s \in States :
              policy[s] > 0 => FeasibleLevel(pretrtsbp[s], pretrtdbp[s], policy[s])

\* C26: in aha_guideline_infinite and in risk_policy_infinite every monthly
\* step of a state is one of at most 12, and the level accepted in a month is
\* never below the level accepted the month before
C26_AtMostTwelveMonthsNeverDown ==
    [][(pc \in {"aha_stage1", "aha_stage2", "risk_loop"} /\ month' = month + 1)
          => (month <= 12 /\ past_trt' >= past_trt)]_vars

\* C29: aha_guideline_infinite leaves no state with the unset value NaN:
\* every state is given a level in 0..numtrt, whatever the targets, also when
\* the state enters the first regime through the 130/80 and 140/90 thresholds
\* with a pressure already below the targets
C29_EveryStateHasALevel ==
    AhaReturned =>
        \A s \in States : policy[s] # NaN /\ policy[s] \in 0 .. numeds

\* the risk of state hh projected under the level given, by the formula of
\* risk lines 30-33 applied to that level, over RD/1000
ProjectedRisk(hh, level) ==
    new_risk(sbp_reductions_generic(level, pretrtsbp[hh]), periodrisk10[hh][0], 0)
    + new_risk(sbp_reductions_generic(level, pretrtsbp[hh]), periodrisk10[hh][1], 1)

\* C13: in risk_policy_infinite, for a state whose untreated risk is at or
\* above targetrisk - targetdiff, the monthly escalation goes on only while
\* the risk projected under the level accepted so far is at or above that
\* threshold, so the level returned is the lowest accepted level whose
\* projected risk is below the threshold: no lower level already is
C13_StopsAtLowestSufficientLevel ==
    /\ ENABLED RiskMonth
          => ProjectedRisk(h, past_trt) >= (targetrisk - targetdiff) * RD
    /\ RiskReturned =>
          \A s \in States :
              UntreatedRisk(s) >= (targetrisk - targetdiff) * RD
                => \A level \in 0 .. policy[s] - 1 :
                      ProjectedRisk(s, level) >= (targetrisk - targetdiff) * RD

\* ============================================ patient_sim_infinite_no_gurobi
\* quality of life of the states in 1/1000 (the weights of ages 40-44) and
\* disutility of the actions in 1/1000 (trtharm = [0, 0.002, ...])
QoL ==
    [ b \in {"40-44", "45-54", "55-64", "65-74", "75-84"} |->
        CASE b = "40-44" -> << 1000, 935, 884, 826, 932, 882, 0, 0, 0, 0 >>
          [] b = "45-54" -> << 1000, 937, 884, 828, 933, 882, 0, 0, 0, 0 >>
          [] b = "55-64" -> << 1000, 938, 884, 828, 932, 882, 0, 0, 0, 0 >>
          [] b = "65-74" -> << 1000, 937, 884, 828, 929, 882, 0, 0, 0, 0 >>
          [] b = "75-84" -> << 1000, 936, 884, 827, 924, 882, 0, 0, 0, 0 >> ]
trtharm(a) == IF a = 0 THEN 0 ELSE 2

\* the value None
None == << >>

\* lines 130-141: the weights of the bracket of the age, None outside 40-84
qol ==
    IF 40 <= age /\ age <= 44 THEN QoL["40-44"]
    ELSE IF 45 <= age /\ age <= 54 THEN QoL["45-54"]
    ELSE IF 55 <= age /\ age <= 64 THEN QoL["55-64"]
    ELSE IF 65 <= age /\ age <= 74 THEN QoL["65-74"]
    ELSE IF 75 <= age /\ age <= 84 THEN QoL["75-84"]
    ELSE None

\* line 142: np.array(None)[state_order] raises IndexError
QolRaises == qol = None

\* lines 145-147: r[:, a] = [max(0, rw - harmsort[a]) for rw in qol]
Rewards ==
    [s \in States |-> [a \in Actions |->
        (Max(0, qol[s + 1] - trtharm(a)) * VScale) \div 1000]]

\* line 106 of policy_improvement_infinite draws the first policy at random;
\* the runs of the whole program start from the constant policies
SimFirstPolicies == { [s \in States |-> a] : a \in Actions }

\* lines 110-154: the tensor and the rewards handed to
\* policy_improvement_infinite, unless the weights cannot be indexed
SimPolicyImprovementCall ==
    /\ pc = "tp_done"
    /\ IF QolRaises
       THEN /\ exc' = "IndexError"
            /\ pc' = "sim_raised"
            /\ UNCHANGED << P, r, max_iterations, pi_opt, iteration >>
       ELSE /\ P' = ptrans
            /\ r' = Rewards
            /\ max_iterations' = 1000
            /\ pi_opt' \in SimFirstPolicies
            /\ iteration' = 0
            /\ pc' = "pi_loop"
            /\ UNCHANGED exc
    /\ UNCHANGED << evVars, age, result, tpInputs, tpVars, cur, engInputs, engVars, gamma, pi_old, V_opt, simVars >>

\* lines 155-156: d_opt = pi_opt.astype(int); d_opt[dead] = 0
d_opt == [s \in States |-> IF s \in Dead THEN 0 ELSE pi_opt[s]]

\* lines 182-184: the call of the guideline engine
SimAhaCall ==
    /\ pc = "pi_done"
    /\ policy' = [s \in States |-> NaN]
    /\ h' = 0
    /\ pc' = "aha_state"
    /\ UNCHANGED << evVars, excVars, tpInputs, feasible, ptrans, j, cur, engInputs, past_trt, month,
                    post_trt_sbp, post_trt_dbp, post_trt_risk, piInputs, piVars, simVars >>

\* line 32 of the test driver: action_class_meds = [[0], [1], ..., [numeds]]
action_class_meds == [x \in 0 .. numeds |-> {x}]

\* np.select(conditions, np.arange(numeds + 1)) for one action y: the first
\* class that holds y, or the default 0
RECURSIVE SelectFrom(_, _)
SelectFrom(y, x) ==
    IF x > numeds THEN 0
    ELSE IF y \in action_class_meds[x] THEN x
    ELSE SelectFrom(y, x + 1)

\* lines 124 and 187-188: the medication counts of the feasible actions of state hh
feas_meds_list(hh) == { SelectFrom(y, 0) : y \in {a \in Actions : feasible[hh][a] = 1} }

\* what .astype(int) makes of NaN depends on the build: the most negative
\* integer on some, 0 on others; IntMin stands for the former
IntMin == 0 - 2147483647
CastOfNaN == {IntMin, 0}
AsType(x, c) == IF x = NaN THEN c ELSE x

Plus(a, b) == IF a = NaN THEN NaN ELSE a + b

MaxOf(lst) == CHOOSE x \in lst : \A y \in lst : y <= x

\* lines 190-191 without the test of line 192
ReconcileNoLargest(level, lst, c) ==
    IF level \in lst THEN level
    ELSE AsType(IF Plus(level, 1) \in lst THEN Plus(level, 1) ELSE Plus(level, 0 - 1), c)

\* lines 190-194 and 214-219: the level of one state after the reconciliation
Reconcile(level, lst, c) ==
    IF level \in lst THEN level
    ELSE LET step == AsType(IF Plus(level, 1) \in lst THEN Plus(level, 1)
                            ELSE Plus(level, 0 - 1), c)
         IN IF step \in lst THEN step ELSE MaxOf(lst)

\* max(feas_meds_list[h]) of line 194 or 219 raises ValueError on an empty list
ReconcileRaises(level, lst) ==
    /\ level \notin lst
    /\ lst = {}

\* lines 186-194: the guideline levels are reconciled state by state; an
\* exception goes to the handler of lines 249-254; otherwise the risk engine is called
SimReconcileAha ==
    /\ pc = "aha_done"
    /\ \E c \in CastOfNaN :
          IF \E s \in States : ReconcileRaises(policy[s], feas_meds_list(s))
          THEN /\ exc' = "ValueError"
               /\ pc' = "sim_raised"
               /\ UNCHANGED << policy, h, pi_aha >>
          ELSE /\ pi_aha' = [s \in States |-> Reconcile(policy[s], feas_meds_list(s), c)]
               /\ policy' = [s \in States |-> NaN]
               /\ h' = 0
               /\ pc' = "risk_state"
               /\ UNCHANGED exc
    /\ UNCHANGED << evVars, age, result, tpInputs, feasible, ptrans, j, cur, engInputs, past_trt, month,
                    post_trt_sbp, post_trt_dbp, post_trt_risk, piInputs, piVars, pi_risk >>

\* lines 210-219, and the return of line 242 or the exception of line 219
SimReconcileRisk ==
    /\ pc = "risk_done"
    /\ \E c \in CastOfNaN :
          IF \E s \in States : ReconcileRaises(policy[s], feas_meds_list(s))
          THEN /\ exc' = "ValueError"
               /\ pc' = "sim_raised"
               /\ UNCHANGED << pi_risk, result >>
          ELSE /\ pi_risk' = [s \in States |-> Reconcile(policy[s], feas_meds_list(s), c)]
               /\ result' = [kind |-> "tuple", V_opt |-> V_opt, d_opt |-> d_opt,
                              d_aha |-> pi_aha, d_risk |-> pi_risk']
               /\ pc' = "sim_done"
               /\ UNCHANGED exc
    /\ UNCHANGED << evVars, age, tpInputs, tpVars, cur, engInputs, engVars, piInputs, piVars, pi_aha >>

\* the classes that derive from BaseException and not from Exception
BaseExceptionOnly == {"KeyboardInterrupt", "SystemExit", "GeneratorExit"}

\* a handler for ValueError alone
CaughtValueErrorOnly(e) == e = "ValueError"

\* line 249: "except Exception" catches every class that derives from Exception
Caught(e) == e \notin BaseExceptionOnly

\* lines 249-254: the handler of the try statement returns None; an exception
\* it does not catch leaves the function
SimExcept ==
    /\ pc = "sim_raised"
    /\ IF Caught(exc)
       THEN /\ result' = [kind |-> "None"]
            /\ pc' = "sim_failed"
       ELSE /\ pc' = "sim_escaped"
            /\ UNCHANGED result
    /\ UNCHANGED << evVars, age, exc, tpInputs, tpVars, cur, engInputs, engVars, piInputs, piVars, simVars >>

\* ---- inputs of the whole program
\* (chddeath, strokedeath, alldeath)
SimDeathVals == { << RD \div 2, RD \div 2, 0 >>, << RD \div 2, RD \div 2, RD \div 2 >> }
\* the 1-year and the 10-year risk of a patient: none, or high
SimRiskVals == { << 0, 20 >>, << RD \div 2, 60 >> }
\* ages: in the first bracket, in a later bracket, and above the last bracket
SimAges == {40, 70, 85}

InitSim ==
    /\ \E rk \in SimRiskVals :
          /\ periodrisk = [s \in States |-> [k \in Events |-> rk[1]]]
          /\ periodrisk10 = [s \in States |-> [k \in Events |-> rk[2]]]
    /\ \E d \in SimDeathVals : chddeath = d[1] /\ strokedeath = d[2] /\ alldeath = d[3]
    /\ rrfactor = [k \in Events |-> RD \div 2]
    /\ \E bp \in BpVals :
          /\ pretrtsbp = [s \in States |-> bp[1] * BPScale]
          /\ pretrtdbp = [s \in States |-> bp[2] * BPScale]
    /\ sbpmin = 120 * BPScale
    /\ dbpmin = 55 * BPScale
    /\ sbpmax = 150 * BPScale
    /\ dbpmax = 90 * BPScale
    /\ \E n \in 1 .. MaxTrt : alldrugs = SubSeq(DrugMenu, 1, n)
    /\ numeds = Len(alldrugs) - 1
    /\ \E t \in TargetVals : targetsbp = t[1] * BPScale /\ targetdbp = t[2] * BPScale
    /\ targetrisk = 100
    /\ targetdiff = 25
    /\ gamma = << 1, 2 >>
    /\ TPLocalsInit
    /\ EngLocalsInit
    /\ P = << >> /\ r = << >> /\ max_iterations = 0
    /\ pi_opt = << >> /\ pi_old = << >> /\ V_opt = << >>
    /\ iteration = 0
    /\ pi_aha = << >> /\ pi_risk = << >>
    /\ pc = "tp_states"
    /\ cur = 0
    /\ EvalIdle
    /\ age \in SimAges
    /\ exc = "none"
    /\ result = Pending

NextSim ==
    \/ TPStates \/ TPFallback
    \/ SimPolicyImprovementCall \/ PIRound
    \/ SimAhaCall \/ AhaClassify \/ AhaStage1Month \/ AhaStage2Month \/ AhaLoopExit
    \/ SimReconcileAha
    \/ RiskClassify \/ RiskMonth \/ RiskLoopExit
    \/ SimReconcileRisk
    \/ SimExcept

SpecSim == InitSim /\ [][NextSim]_vars

\* policy_improvement_infinite has returned to the orchestrator
SimHasOptimalPolicy ==
    pc \notin {"tp_states", "tp_fallback", "tp_done", "pi_loop"} /\ pi_opt # << >>

\* C4: the optimal policy the orchestrator obtains from
\* policy_improvement_infinite selects, for every live state, only an action
\* that the feasibility matrix marks feasible for that state
C4_OptimalPolicyIsFeasible ==
    SimHasOptimalPolicy => \A s \in Live : feasible[s][d_opt[s]] = 1

\* C7: after the reconciliation step the clinical-guideline level and the
\* risk-threshold level of every state are members of feas_meds_list of that
\* state, whatever the engines produced
C7_ReconciledLevelsAreFeasible ==
    /\ pi_aha # << >> => \A s \in States : pi_aha[s] \in feas_meds_list(s)
    /\ pi_risk # << >> => \A s \in States : pi_risk[s] \in feas_meds_list(s)

\* both reconciliations are done and each had a level to replace: the
\* guideline engine's and the risk engine's raw level of some state were not
\* in the list of that state
C7_Witness ==
    /\ pc = "sim_done"
    /\ \E s \in States : AhaLevel(s, pretrtsbp[s], pretrtdbp[s]) \notin feas_meds_list(s)
    /\ \E s \in States : policy[s] \notin feas_meds_list(s)

\* C25: the reconciliation of the orchestrator leaves a feasible level L of a
\* state unchanged; otherwise it yields L+1 if that is feasible, else L-1 if
\* that is feasible, else the largest feasible level of the state; and it
\* raises nothing when the feasible list of every state is non-empty
C25_ReconciliationOrder ==
    LET Stated(level, lst) ==
            IF level \in lst THEN level
            ELSE IF Plus(level, 1) \in lst THEN Plus(level, 1)
            ELSE IF Plus(level, 0 - 1) \in lst THEN Plus(level, 0 - 1)
            ELSE MaxOf(lst)
    IN /\ pi_aha # << >> =>
             \A s \in States :
                 pi_aha[s] = Stated(AhaLevel(s, pretrtsbp[s], pretrtdbp[s]),
                                    feas_meds_list(s))
       /\ pi_risk # << >> =>
             \A s \in States : pi_risk[s] = Stated(policy[s], feas_meds_list(s))
       /\ (pc = "sim_raised" /\ exc = "ValueError") =>
             \E s \in States : feas_meds_list(s) = {}

\* the orchestrator has returned or has been left by an exception
SimEnded == pc \in {"sim_done", "sim_failed", "sim_escaped"}

\* C17: patient_sim_infinite_no_gurobi is never left by an exception; when an
\* exception was raised while the patient was processed (an empty feasible
\* list in a reconciliation, an age outside the quality-of-life brackets) it
\* returns None, and otherwise it returns the tuple of the results
C17_FailuresReturnNone ==
    /\ pc # "sim_escaped"
    /\ (SimEnded /\ exc # "none") => (pc = "sim_failed" /\ result = [kind |-> "None"])
    /\ (SimEnded /\ exc = "none") =>
          /\ pc = "sim_done"
          /\ result = [kind |-> "tuple", V_opt |-> V_opt, d_opt |-> d_opt,
                        d_aha |-> pi_aha, d_risk |-> pi_risk]
    /\ (SimEnded /\ QolRaises) => pc = "sim_failed"
    /\ ~SimEnded => result = Pending

\* a patient of an age within the brackets failed in a reconciliation, a
\* state having no feasible number of medications, and None was returned
C17_Witness ==
    /\ pc = "sim_failed"
    /\ exc = "ValueError"
    /\ ~QolRaises
    /\ \E s \in States : feas_meds_list(s) = {}
    /\ result = [kind |-> "None"]

Init == InitSim
Next == NextSim
Spec == Init /\ [][Next]_vars

====
